---- MODULE Spec2Model ----
(***************************************************************************)
(* Assignment workflow of thearning-backend: the handlers of               *)
(* src/src/assignments/routes.rs (draft, update_assignment with its        *)
(* submission fan-out and send_mail, delete_assignment, the student and    *)
(* teacher read views, get_attachments), Attachment::create of             *)
(* src/src/attachments/models.rs and the class-user rows of                *)
(* src/src/users/models.rs.                                                *)
(*                                                                         *)
(* Each handler is one action over the tables of the data store.  An       *)
(* Option<T> is the set of at most one T: None is {} and Some(x) is {x}.   *)
(* A handler's result is kept in resp; a handler whose unwrap() panics     *)
(* answers "Panic" (served as a 500 by the framework).                     *)
(***************************************************************************)
EXTENDS Integers, Sequences, FiniteSets, TLC

VARIABLES
    assignments,   \* assignments table: assignment_id -> row
    students,      \* students table of the class, in insertion order (user ids)
    submissions,   \* submissions table, in insertion order
    attachments,   \* attachments table: attachment_id -> row
    comments,      \* public comments table, in insertion order
    tasks,         \* delivery tasks spawned by send_mail, in spawn order
    calls,         \* number of update_assignment requests served so far
    resp           \* the response of the last request served

vars == <<assignments, students, submissions, attachments, comments, tasks, calls, resp>>

----------------------------------------------------------------------------
(* Bounds of the model. *)

MaxPublish == 2
MaxAttachments == 2
MaxComments == 1

----------------------------------------------------------------------------
(* Option<T> *)

None == {}
Some(x) == {x}
is_some(o) == o # {}
unwrap(o) == CHOOSE x \in o : TRUE
Option(S) == {None} \cup {Some(x) : x \in S}

RECURSIVE SeqToSet(_)
SeqToSet(s) == IF s = <<>> THEN {} ELSE {Head(s)} \cup SeqToSet(Tail(s))

----------------------------------------------------------------------------
(* Users: users.status is the role string. *)

StudentUsers == {"s1", "s2"}
TeacherUsers == {"t1", "t2"}
AdminUsers == {"ad"}
UserIds == StudentUsers \cup TeacherUsers \cup AdminUsers

status(uid) ==
    IF uid \in StudentUsers THEN "student"
    ELSE IF uid \in TeacherUsers THEN "teacher" ELSE "admin"

is_admin(uid) == status(uid) = "admin"
is_teacher(uid) == status(uid) = "teacher"
is_student(uid) == status(uid) = "student"

AssignmentIds == {"a1", "a2"}
AnnouncementIds == {"n1"}
FileIds == {"f1", "f2"}
LinkIds == {"l1"}
StoredFiles == {"f1"}
StoredLinks == {"l1"}
Names == {"HW1"}
Instructions == {"Read ch1"}

----------------------------------------------------------------------------
(* Rows *)

\* Assignment::default(): a draft has its content fields and its creator unset.
DefaultAssignment ==
    [draft |-> TRUE, assignment_name |-> None, instructions |-> None, creator |-> None]

\* AssignmentData.assignment (FillableAssignments): the fields of a publish request.
FillableAssignments ==
    [draft : BOOLEAN, assignment_name : Option(Names),
     instructions : Option(Instructions), creator : {None}]

\* Assignment::get_by_id: Ok(row) when the row exists, Err otherwise.
get_by_id(tbl, id) == IF id \in DOMAIN tbl THEN Some(tbl[id]) ELSE None

\* utils::update: a partial update, a field of the changeset that is None keeps
\* the stored value; the draft flag is always written.
update(row, data) ==
    [draft |-> data.draft,
     assignment_name |->
        IF is_some(data.assignment_name) THEN data.assignment_name ELSE row.assignment_name,
     instructions |->
        IF is_some(data.instructions) THEN data.instructions ELSE row.instructions,
     creator |-> IF is_some(data.creator) THEN data.creator ELSE row.creator]

\* Student::load_in_class: the user ids of the class's student rows.
load_in_class(tbl) == tbl

HasSubmission(subs, aid, uid) ==
    \E i \in 1..Len(subs) : subs[i].assignment_id = aid /\ subs[i].user_id = uid

\* Submissions::create: the status defaults to "in progress"; a row is inserted
\* only when the (assignment, student) pair has none.
SubmissionsCreate(subs, new) ==
    IF HasSubmission(subs, new.assignment_id, new.user_id) THEN subs
    ELSE Append(subs, [assignment_id |-> new.assignment_id,
                       user_id |-> new.user_id,
                       status |-> "in progress"])

\* Submissions::load_by_assignment
load_by_assignment(subs, aid) == SelectSeq(subs, LAMBDA r : r.assignment_id = aid)

\* Submissions::get_by_id(assignment_id, user_id): the actor's own submission.
SubmissionsGetById(subs, aid, uid) ==
    LET idx == {i \in 1..Len(subs) : subs[i].assignment_id = aid /\ subs[i].user_id = uid}
    IN IF idx = {} THEN None
       ELSE LET i == CHOOSE j \in idx : \A k \in idx : j <= k
            IN Some([submission_id |-> i] @@ subs[i])

----------------------------------------------------------------------------
(* update_assignment: PATCH /<class_id>/assignments *)

\* Where a data-store call of one publish request fails, if anywhere.
PublishFaults(roster) ==
    {[at |-> a, k |-> 0] : a \in {"none", "load_in_class", "update"}}
        \cup {[at |-> "create", k |-> k] : k \in 1..Len(roster)}

\* Faulty variant: the Err arm of the loop is swallowed and the loop goes on.
FanOutNeverStops(fault) == FALSE

\* The loop over the roster returns at the first Submissions::create that fails.
FanOutStops(fault) == fault.at = "create"

\* How many roster students the loop gets a submission created for.
FanOutReach(roster, fault) == IF FanOutStops(fault) THEN fault.k - 1 ELSE Len(roster)

\* Faulty variant: the loop inserts its rows itself, whether or not the pair has one.
RECURSIVE FanOutInsertsAll(_, _, _, _)
FanOutInsertsAll(subs, aid, roster, n) ==
    IF n = 0 \/ roster = <<>> THEN subs
    ELSE FanOutInsertsAll(Append(subs, [assignment_id |-> aid, user_id |-> Head(roster),
                                        status |-> "in progress"]),
                          aid, Tail(roster), n - 1)

\* The loop's inserts: one Submissions::create for each of the first n students.
RECURSIVE FanOut(_, _, _, _)
FanOut(subs, aid, roster, n) ==
    IF n = 0 \/ roster = <<>> THEN subs
    ELSE FanOut(SubmissionsCreate(subs, [assignment_id |-> aid, user_id |-> Head(roster)]),
                aid, Tail(roster), n - 1)

\* Faulty variant: the request's creator field is passed on as it came.
WithoutCreator(data, actor) == data

\* assignment_data.creator = Some(get_user(&key.0).user_id)
WithCreator(data, actor) == [data EXCEPT !.creator = Some(actor)]

\* The addresses collected for the roster: one per student row (a user's
\* address stands for the user).
Emails(roster) == roster

\* Faulty variant: every address is sent to twice.
send_mail_twice(tbl, call, emails) ==
    tbl \o [i \in 1..(2 * Len(emails)) |->
               [call |-> call, to |-> emails[(i + 1) \div 2], state |-> "pending"]]

\* send_mail: one detached task per address, none awaited.
send_mail(tbl, call, emails) ==
    tbl \o [i \in 1..Len(emails) |-> [call |-> call, to |-> emails[i], state |-> "pending"]]

\* format!(...) in send_mail unwraps the name and the instructions.
MailRenders(row) == is_some(row.assignment_name) /\ is_some(row.instructions)

\* A publish request (with the fault its data-store calls met) and its response.
PublishResp(actor, id, data, fault, st, new) ==
    [op |-> "publish", actor |-> actor, id |-> id, data |-> data, fault |-> fault,
     status |-> st, new_assignment |-> new]

update_assignment(actor, id, data, fault) ==
    /\ calls < MaxPublish
    /\ calls' = calls + 1
    /\ UNCHANGED <<students, attachments, comments>>
    /\ IF ~is_some(get_by_id(assignments, id))
       THEN /\ resp' = PublishResp(actor, id, data, fault, "NotFound", None)
            /\ UNCHANGED <<assignments, submissions, tasks>>
       ELSE IF fault.at = "load_in_class"
       THEN /\ resp' = PublishResp(actor, id, data, fault, "Panic", None)
            /\ UNCHANGED <<assignments, submissions, tasks>>
       ELSE LET roster == load_in_class(students)
                subs == FanOut(submissions, id, roster, FanOutReach(roster, fault))
                new == update(assignments[id], WithCreator(data, actor))
            IN /\ submissions' = subs
               /\ IF FanOutStops(fault)
                  THEN /\ resp' = PublishResp(actor, id, data, fault, "InternalServerError", None)
                       /\ UNCHANGED <<assignments, tasks>>
                  ELSE IF fault.at = "update"
                  THEN /\ resp' = PublishResp(actor, id, data, fault, "Panic", None)
                       /\ UNCHANGED <<assignments, tasks>>
                  ELSE /\ assignments' = [assignments EXCEPT ![id] = new]
                       /\ IF MailRenders(new)
                          THEN /\ tasks' = send_mail(tasks, calls', Emails(roster))
                               /\ resp' = PublishResp(actor, id, data, fault, "Ok", Some(new))
                          ELSE /\ resp' = PublishResp(actor, id, data, fault, "Panic", None)
                               /\ UNCHANGED tasks

\* A detached task: send.await.unwrap() completes, or panics inside the task.
Deliver(i, outcome) ==
    /\ i \in 1..Len(tasks)
    /\ tasks[i].state = "pending"
    /\ tasks' = [tasks EXCEPT ![i].state = outcome]
    /\ UNCHANGED <<assignments, students, submissions, attachments, comments, calls, resp>>

----------------------------------------------------------------------------
(* draft: POST /<class_id>/assignments *)

\* The handler reads neither its key nor its class id; the id is freshly generated.
draft ==
    \E id \in AssignmentIds \ DOMAIN assignments :
        /\ assignments' = assignments @@ (id :> DefaultAssignment)
        /\ resp' = [op |-> "draft", status |-> "Ok", assignment_id |-> id]
        /\ UNCHANGED <<students, submissions, attachments, comments, tasks, calls>>

\* ClassUser::create for Student: a student row of the class.  create checks
\* nothing itself; the roster is a set of students, so a student is enrolled once.
Enroll(uid) ==
    /\ uid \notin SeqToSet(students)
    /\ students' = Append(students, uid)
    /\ UNCHANGED <<assignments, submissions, attachments, comments, tasks, calls, resp>>

----------------------------------------------------------------------------
(* Attachments *)

\* FillableAttachment: the file and the owner references Attachment::create is given.
FillableAttachment ==
    [file_id : StoredFiles, assignment_id : Option(AssignmentIds),
     announcement_id : Option(AnnouncementIds)]

\* The row Attachment::create builds: the references are copied as given; the
\* link and submission references the read views filter and resolve by are not
\* among its inputs and stay unset.
NewAttachment(new_data) ==
    [file_id |-> Some(new_data.file_id),
     link_id |-> None,
     assignment_id |-> new_data.assignment_id,
     submission_id |-> None,
     announcement_id |-> new_data.announcement_id]

\* Attachment::create: insert the row, then read it back.
AttachmentCreate(new_data) ==
    /\ Len(attachments) < MaxAttachments
    /\ attachments' = Append(attachments, NewAttachment(new_data))
    /\ resp' = [op |-> "attach", status |-> "Ok", attachment |-> NewAttachment(new_data)]
    /\ UNCHANGED <<assignments, students, submissions, comments, tasks, calls>>

\* Attachment::load_by_assignment_id, and the views' filter on assignment_id.
load_by_assignment_id(tbl, aid) == SelectSeq(tbl, LAMBDA r : r.assignment_id = Some(aid))

\* The student view's filter on submission_id.
load_by_submission_id(tbl, sid) == SelectSeq(tbl, LAMBDA r : r.submission_id = Some(sid))

\* UploadedFile::receive / Link::receive: the stored metadata, or Err.
ReceiveFile(id) == IF id \in StoredFiles THEN Some([file_id |-> id]) ELSE None
ReceiveLink(id) == IF id \in StoredLinks THEN Some([link_id |-> id]) ELSE None

\* Faulty variant: the link is resolved only when there is no file.
AssignmentResponseEither(thing) ==
    [attachment |-> thing,
     file |-> IF is_some(thing.file_id) THEN ReceiveFile(unwrap(thing.file_id)) ELSE None,
     link |-> IF is_some(thing.file_id) THEN None
              ELSE IF is_some(thing.link_id) THEN ReceiveLink(unwrap(thing.link_id))
              ELSE None]

\* One element of get_attachments' result.
AssignmentResponse(thing) ==
    [attachment |-> thing,
     file |-> IF is_some(thing.file_id) THEN ReceiveFile(unwrap(thing.file_id)) ELSE None,
     link |-> IF is_some(thing.link_id) THEN ReceiveLink(unwrap(thing.link_id)) ELSE None]

\* get_attachments panics when a receive(..).unwrap() meets an Err.
GetAttachmentsPanics(vec) ==
    \E i \in 1..Len(vec) :
        \/ is_some(vec[i].file_id) /\ ~is_some(ReceiveFile(unwrap(vec[i].file_id)))
        \/ is_some(vec[i].link_id) /\ ~is_some(ReceiveLink(unwrap(vec[i].link_id)))

get_attachments(vec) == [i \in 1..Len(vec) |-> AssignmentResponse(vec[i])]

\* A public comment on an assignment, by any user of the class.
AddComment(aid, uid) ==
    /\ Len(comments) < MaxComments
    /\ aid \in DOMAIN assignments
    /\ comments' = Append(comments, [assignment_id |-> aid, user_id |-> uid])
    /\ UNCHANGED <<assignments, students, submissions, attachments, tasks, calls, resp>>

\* Comment::load_by_assignment
CommentsByAssignment(tbl, aid) == SelectSeq(tbl, LAMBDA r : r.assignment_id = aid)

\* get_comments: each comment paired with its author's public summary.
get_comments(vec) ==
    [i \in 1..Len(vec) |-> [commenter |-> [user_id |-> vec[i].user_id,
                                           status |-> status(vec[i].user_id)],
                            comment |-> vec[i]]]

----------------------------------------------------------------------------
(* delete_assignment: DELETE /<class_id>/assignments/<assignment_id> *)

\* Faulty variant: the student check is missing.
DeleteGateNoStudentCheck(actor, row) ==
    IF row.draft = FALSE /\ is_teacher(actor)
    THEN IF ~is_some(row.creator) THEN "Panic"
         ELSE IF unwrap(row.creator) = actor THEN "Forbidden" ELSE "pass"
    ELSE "pass"

\* Faulty variant: a published assignment is closed to the teachers who did not create it.
DeleteGateNonOwners(actor, row) ==
    IF is_student(actor) THEN "Forbidden"
    ELSE IF row.draft = FALSE /\ is_teacher(actor)
    THEN IF ~is_some(row.creator) THEN "Panic"
         ELSE IF unwrap(row.creator) # actor THEN "Forbidden" ELSE "pass"
    ELSE "pass"

\* The two checks between the load of the assignment and its removal.
DeleteGate(actor, row) ==
    IF is_student(actor) THEN "Forbidden"
    ELSE IF row.draft = FALSE
    THEN IF is_teacher(actor)
         THEN IF ~is_some(row.creator) THEN "Panic"
              ELSE IF unwrap(row.creator) = actor THEN "Forbidden" ELSE "pass"
         ELSE "pass"
    ELSE "pass"

\* Assignment::delete: the row is removed, nothing else.
AssignmentDelete(tbl, id) == [k \in DOMAIN tbl \ {id} |-> tbl[k]]

\* Faulty variant: the attachments are loaded without the filter on the assignment.
DeleteAttachmentsAll(tbl, aid) == <<>>

\* att.into_iter().for_each(|i| i.delete()): the attachments of the assignment go.
DeleteAttachmentsOf(tbl, aid) == SelectSeq(tbl, LAMBDA r : r.assignment_id # Some(aid))

DeleteResp(actor, id, st) == [op |-> "delete", actor |-> actor, id |-> id, status |-> st]

delete_assignment(actor, id, fault) ==
    /\ UNCHANGED <<students, submissions, comments, tasks, calls>>
    /\ IF ~is_some(get_by_id(assignments, id))
       THEN /\ resp' = DeleteResp(actor, id, "NotFound")
            /\ UNCHANGED <<assignments, attachments>>
       ELSE IF DeleteGate(actor, assignments[id]) # "pass"
       THEN /\ resp' = DeleteResp(actor, id, DeleteGate(actor, assignments[id]))
            /\ UNCHANGED <<assignments, attachments>>
       ELSE /\ assignments' = AssignmentDelete(assignments, id)
            /\ IF fault = "load_by_assignment_id"
               THEN /\ resp' = DeleteResp(actor, id, "NotFound")
                    /\ UNCHANGED attachments
               ELSE /\ attachments' = DeleteAttachmentsOf(attachments, id)
                    /\ resp' = DeleteResp(actor, id, "Ok")

----------------------------------------------------------------------------
(* The read views *)

ViewResp(op, actor, id, st, body) ==
    [op |-> op, actor |-> actor, id |-> id, status |-> st, body |-> body]

\* students_assignment: GET /<class_id>/assignments/students/<assignment_id>
students_assignment(actor, id) ==
    /\ UNCHANGED <<assignments, students, submissions, attachments, comments, tasks, calls>>
    /\ IF ~is_student(actor)
       THEN resp' = ViewResp("students_assignment", actor, id, "Forbidden", None)
       ELSE IF ~is_some(get_by_id(assignments, id))
       THEN resp' = ViewResp("students_assignment", actor, id, "NotFound", None)
       ELSE LET submission == SubmissionsGetById(submissions, id, actor)
                assignment_attachments == load_by_assignment_id(attachments, id)
            IN IF ~is_some(submission)
               THEN resp' = ViewResp("students_assignment", actor, id, "Panic", None)
               ELSE LET submission_attachments ==
                            load_by_submission_id(attachments, unwrap(submission).submission_id)
                    IN IF \/ GetAttachmentsPanics(assignment_attachments)
                          \/ GetAttachmentsPanics(submission_attachments)
                       THEN resp' = ViewResp("students_assignment", actor, id, "Panic", None)
                       ELSE resp' = ViewResp("students_assignment", actor, id, "Ok",
                                Some([assignment_attachments |->
                                          get_attachments(assignment_attachments),
                                      assignment |-> assignments[id],
                                      submission |-> unwrap(submission),
                                      submission_attachments |->
                                          get_attachments(submission_attachments),
                                      comments |->
                                          get_comments(CommentsByAssignment(comments, id))]))

\* teachers_assignment: GET /<class_id>/assignments/teachers/<assignment_id>
teachers_assignment(actor, id) ==
    /\ UNCHANGED <<assignments, students, submissions, attachments, comments, tasks, calls>>
    /\ IF is_student(actor)
       THEN resp' = ViewResp("teachers_assignment", actor, id, "Forbidden", None)
       ELSE IF ~is_some(get_by_id(assignments, id))
       THEN resp' = ViewResp("teachers_assignment", actor, id, "NotFound", None)
       ELSE LET assignment_attachments == load_by_assignment_id(attachments, id)
            IN IF GetAttachmentsPanics(assignment_attachments)
               THEN resp' = ViewResp("teachers_assignment", actor, id, "Panic", None)
               ELSE resp' = ViewResp("teachers_assignment", actor, id, "Ok",
                        Some([assignment_attachments |->
                                  get_attachments(assignment_attachments),
                              assignment |-> assignments[id],
                              submissions |-> load_by_assignment(submissions, id)]))

----------------------------------------------------------------------------
(* Responses *)

NoResp == [op |-> "none"]

Init ==
    /\ assignments = << >>
    /\ students = << >>
    /\ submissions = << >>
    /\ attachments = << >>
    /\ comments = << >>
    /\ tasks = << >>
    /\ calls = 0
    /\ resp = NoResp

\* Requests that carry a name and instructions, and the staff of the class.
FullPayloads ==
    {d \in FillableAssignments : is_some(d.assignment_name) /\ is_some(d.instructions)}
Staff == TeacherUsers \cup AdminUsers
NoFault == [at |-> "none", k |-> 0]

\* The roster grows one student at a time; the students are enrolled in a fixed
\* order (their names are interchangeable).
EnrollNext ==
    \/ Enroll("s1")
    \/ students # <<>> /\ Enroll("s2")

\* The publish workflow: drafts, the roster, and publish requests by the
\* teachers with every payload and every fault.
Next ==
    \/ draft
    \/ EnrollNext
    \/ \E actor \in TeacherUsers, id \in AssignmentIds, data \in FillableAssignments :
           \E fault \in PublishFaults(students) : update_assignment(actor, id, data, fault)

Spec == Init /\ [][Next]_vars

\* Notification: the publish requests of one teacher and the delivery tasks
\* they spawn, each of which ends sent or failed.
NextNotify ==
    \/ draft
    \/ EnrollNext
    \/ \E id \in AssignmentIds, data \in FillableAssignments :
           \E fault \in PublishFaults(students) : update_assignment("t1", id, data, fault)
    \/ \E i \in 1..Len(tasks), outcome \in {"sent", "failed"} : Deliver(i, outcome)

SpecNotify == Init /\ [][NextNotify]_vars

\* Delete and the teacher view, over assignments that a teacher or the admin
\* publishes and that own
\* attachments, submissions and comments.
NextDelete ==
    \/ draft
    \/ Enroll("s1")
    \/ \E actor \in {"t1", "ad"}, id \in AssignmentIds, data \in FullPayloads :
           update_assignment(actor, id, data, NoFault)
    \/ \E new_data \in FillableAttachment :
           /\ is_some(new_data.assignment_id)
           /\ ~is_some(new_data.announcement_id)
           /\ AttachmentCreate(new_data)
    \/ \E aid \in AssignmentIds : AddComment(aid, "s1")
    \/ \E actor \in {"s1"} \cup Staff, id \in AssignmentIds :
           \E fault \in {"none", "load_by_assignment_id"} : delete_assignment(actor, id, fault)
    \/ \E actor \in {"s1", "t1"}, id \in AssignmentIds : teachers_assignment(actor, id)

SpecDelete == Init /\ [][NextDelete]_vars

\* The student view, over assignments a teacher publishes to a growing roster.
NextRead ==
    \/ draft
    \/ \E uid \in StudentUsers : Enroll(uid)
    \/ \E id \in AssignmentIds, data \in FullPayloads :
           \E fault \in PublishFaults(students) : update_assignment("t1", id, data, fault)
    \/ \E aid \in AssignmentIds : AddComment(aid, "s1")
    \/ \E actor \in UserIds, id \in AssignmentIds : students_assignment(actor, id)

SpecRead == Init /\ [][NextRead]_vars

\* Attachment::create on every combination of owner references.
NextAttach ==
    \/ draft
    \/ \E new_data \in FillableAttachment : AttachmentCreate(new_data)
    \/ \E actor \in Staff, id \in AssignmentIds : teachers_assignment(actor, id)

SpecAttach == Init /\ [][NextAttach]_vars

\* The attachment rows the read views can meet: each content reference set or
\* not, owned by assignment a1 or by its first submission.
AttachmentRows ==
    {r \in [file_id : Option(FileIds), link_id : Option(LinkIds),
            assignment_id : Option({"a1"}), submission_id : Option({1}),
            announcement_id : {None}] :
        is_some(r.assignment_id) # is_some(r.submission_id)}

AttachmentTables ==
    UNION {[1..n -> AttachmentRows] : n \in 0..MaxAttachments}

\* The tables after t1 published a1 to the roster <<s1>> and the mail was sent,
\* holding any attachment rows.
InitResolve ==
    /\ assignments = ("a1" :> [draft |-> FALSE, assignment_name |-> Some("HW1"),
                               instructions |-> Some("Read ch1"), creator |-> Some("t1")])
    /\ students = <<"s1">>
    /\ submissions = <<[assignment_id |-> "a1", user_id |-> "s1", status |-> "in progress"]>>
    /\ attachments \in AttachmentTables
    /\ comments = <<>>
    /\ tasks = <<[call |-> 1, to |-> "s1", state |-> "sent"]>>
    /\ calls = 1
    /\ resp = NoResp

\* get_attachments as the two read views apply it.
NextResolve ==
    \/ \E actor \in UserIds, id \in AssignmentIds : students_assignment(actor, id)
    \/ \E actor \in UserIds, id \in AssignmentIds : teachers_assignment(actor, id)

SpecResolve == InitResolve /\ [][NextResolve]_vars

----------------------------------------------------------------------------
(* Properties of the publish workflow (Spec, SpecNotify) *)

RowsOf(subs, aid, uid) ==
    {i \in 1..Len(subs) : subs[i].assignment_id = aid /\ subs[i].user_id = uid}

RowsFor(subs, aid) == {i \in 1..Len(subs) : subs[i].assignment_id = aid}

NoDuplicatePairs(subs) ==
    \A i, j \in 1..Len(subs) :
        (subs[i].assignment_id = subs[j].assignment_id /\ subs[i].user_id = subs[j].user_id)
            => i = j

\* The rows of the assignment are exactly one per student of the roster.
FannedOut(subs, aid, roster) ==
    /\ \A i \in 1..Len(roster) : Cardinality(RowsOf(subs, aid, roster[i])) = 1
    /\ Cardinality(RowsFor(subs, aid)) = Len(roster)

\* This step serves a publish request.
PublishStep == calls' = calls + 1

\* This step serves a publish request that completes with Ok.
PublishOkStep == PublishStep /\ resp'.status = "Ok"

IsDraft(row) == row.draft /\ ~is_some(row.assignment_name) /\ ~is_some(row.instructions)

\* C2: a publish of an existing draft assignment by actor t that completes
\* returns the assignment with draft flag, name and instructions of the request
\* and creator t, stores what it returns, and leaves exactly one submission row
\* with status "in progress" for every student of the roster.
C2_PublishDraft ==
    [][ (PublishOkStep /\ resp'.id \in DOMAIN assignments /\ IsDraft(assignments[resp'.id]))
          => LET new == unwrap(resp'.new_assignment)
             IN /\ new.draft = resp'.data.draft
                /\ new.assignment_name = resp'.data.assignment_name
                /\ new.instructions = resp'.data.instructions
                /\ new.creator = Some(resp'.actor)
                /\ assignments'[resp'.id] = new
                /\ \A i \in 1..Len(students) :
                      /\ Cardinality(RowsOf(submissions', resp'.id, students[i])) = 1
                      /\ \A r \in RowsOf(submissions', resp'.id, students[i]) :
                            submissions'[r].status = "in progress" ]_vars

\* The scenario of the specification: roster of two, draft cleared, creator set.
C2_Witness ==
    /\ calls = 1
    /\ resp.op = "publish" /\ resp.status = "Ok"
    /\ resp.data.draft = FALSE
    /\ unwrap(resp.new_assignment).creator = Some("t1")
    /\ assignments[resp.id].draft = FALSE
    /\ Len(students) = 2
    /\ Len(submissions) = 2
    /\ \A i \in 1..2 : submissions[i].status = "in progress"

IsPrefix(s, t) == Len(s) <= Len(t) /\ \A i \in 1..Len(s) : t[i] = s[i]

\* C9: publish is not atomic.  When Submissions::create fails for the k-th
\* roster student of an existing assignment, the request fails with an internal
\* error, every stored submission stays, the k-1 preceding students have their
\* submission and at most k-1 rows are added, the assignment row is unchanged
\* and no delivery task is spawned.
C9_PublishNotAtomic ==
    [][ (PublishStep /\ resp'.fault.at = "create" /\ resp'.id \in DOMAIN assignments)
          => /\ resp'.status = "InternalServerError"
             /\ IsPrefix(submissions, submissions')
             /\ \A j \in 1..(resp'.fault.k - 1) :
                   HasSubmission(submissions', resp'.id, students[j])
             /\ Len(submissions') <= Len(submissions) + (resp'.fault.k - 1)
             /\ assignments' = assignments
             /\ tasks' = tasks ]_vars

\* The second student's creation failed: the first has a row, the second none,
\* the assignment is still the untouched draft and nothing was sent.
C9_Witness ==
    /\ resp.op = "publish" /\ resp.status = "InternalServerError"
    /\ resp.fault.k = 2
    /\ HasSubmission(submissions, resp.id, students[1])
    /\ ~HasSubmission(submissions, resp.id, students[2])
    /\ assignments[resp.id] = DefaultAssignment
    /\ tasks = <<>>

\* C11, as claimed: publish sets the creator to the acting user only if the
\* creator is not already set.  A completed publish of an assignment whose
\* creator is set stores and returns that creator, whoever the actor is; a
\* completed publish of an assignment without a creator stores and returns the
\* actor.
C11_CreatorSetOnce ==
    [][ (PublishOkStep /\ resp'.id \in DOMAIN assignments)
          => LET old == assignments[resp'.id].creator
                 kept == IF is_some(old) THEN old ELSE Some(resp'.actor)
             IN /\ assignments'[resp'.id].creator = kept
                /\ unwrap(resp'.new_assignment).creator = kept ]_vars

TasksOf(tbl, call, to) == {i \in 1..Len(tbl) : tbl[i].call = call /\ tbl[i].to = to}

\* C10: notification is fire-and-forget.  Tasks are spawned only by a publish
\* that completes, after its update is stored: one pending task per roster
\* student, the response given while all of them are pending.  No student is
\* sent to twice for one request.  A delivery, failed or not, ends one pending
\* task and changes nothing else: not the response, not the tables, not the
\* other tasks.
C10_FireAndForget ==
    [][ /\ PublishOkStep
          => /\ Len(tasks') = Len(tasks) + Len(students)
             /\ IsPrefix(tasks, tasks')
             /\ \A i \in 1..Len(students) :
                   /\ Cardinality(TasksOf(tasks', calls', students[i])) = 1
                   /\ \A t \in TasksOf(tasks', calls', students[i]) :
                         tasks'[t].state = "pending"
             /\ assignments'[resp'.id] = unwrap(resp'.new_assignment)
        /\ (tasks' # tasks /\ Len(tasks') # Len(tasks)) => PublishOkStep
        /\ (PublishStep /\ resp'.status # "Ok") => tasks' = tasks
        /\ (tasks' # tasks /\ ~PublishStep)
          => /\ resp' = resp
             /\ assignments' = assignments
             /\ submissions' = submissions
             /\ Len(tasks') = Len(tasks)
             /\ \E i \in 1..Len(tasks) :
                   /\ tasks[i].state = "pending"
                   /\ tasks'[i].state \in {"sent", "failed"}
                   /\ tasks'[i].call = tasks[i].call /\ tasks'[i].to = tasks[i].to
                   /\ \A j \in 1..Len(tasks) : j # i => tasks'[j] = tasks[j] ]_vars

\* A completed publish to two students whose response stands while one delivery
\* has failed and the other is still pending.
C10_Witness ==
    /\ resp.op = "publish" /\ resp.status = "Ok"
    /\ Len(students) = 2
    /\ Len(tasks) = 2
    /\ tasks[1].state = "failed"
    /\ tasks[2].state = "pending"
    /\ assignments[resp.id] = unwrap(resp.new_assignment)

----------------------------------------------------------------------------
(* Properties of delete and of the read views *)

\* This step serves a delete request, or a read view.
DeleteStep == resp' # resp /\ resp'.op = "delete"
TeacherViewStep == resp' # resp /\ resp'.op = "teachers_assignment"

\* C3: the role gate.  For every existing assignment, a delete or a teacher
\* read view requested by a student is answered Forbidden, and the delete
\* leaves the assignments and the attachments as they were.
C3_RoleGate ==
    [][ /\ (DeleteStep /\ is_student(resp'.actor) /\ resp'.id \in DOMAIN assignments)
          => /\ resp'.status = "Forbidden"
             /\ assignments' = assignments
             /\ attachments' = attachments
        /\ (TeacherViewStep /\ is_student(resp'.actor) /\ resp'.id \in DOMAIN assignments)
          => resp'.status = "Forbidden" ]_vars

\* A student's delete of a published assignment that owns an attachment was
\* refused, and both are still there.
C3_Witness ==
    /\ resp.op = "delete" /\ resp.status = "Forbidden"
    /\ is_student(resp.actor)
    /\ resp.id \in DOMAIN assignments
    /\ assignments[resp.id].draft = FALSE
    /\ Len(load_by_assignment_id(attachments, resp.id)) >= 1

\* C6: a delete that succeeds removes the assignment row and exactly the
\* attachments owned by that assignment; the other assignments, the attachments
\* of other owners, and all submissions and comments (those that reference the
\* deleted assignment too) are unchanged.
C6_DeleteFrame ==
    [][ (DeleteStep /\ resp'.status = "Ok")
          => /\ resp'.id \in DOMAIN assignments
             /\ DOMAIN assignments' = DOMAIN assignments \ {resp'.id}
             /\ \A k \in DOMAIN assignments' : assignments'[k] = assignments[k]
             /\ \A i \in 1..Len(attachments') :
                   attachments'[i].assignment_id # Some(resp'.id)
             /\ attachments' =
                   SelectSeq(attachments, LAMBDA r : r.assignment_id # Some(resp'.id))
             /\ submissions' = submissions
             /\ comments' = comments ]_vars

\* After a successful delete: the assignment is gone, a submission and a
\* comment still reference it, and the other assignment's attachment is kept.
C6_Witness ==
    /\ resp.op = "delete" /\ resp.status = "Ok"
    /\ resp.id \notin DOMAIN assignments
    /\ \E i \in 1..Len(submissions) : submissions[i].assignment_id = resp.id
    /\ \E i \in 1..Len(comments) : comments[i].assignment_id = resp.id
    /\ Len(attachments) = 1
    /\ attachments[1].assignment_id # Some(resp.id)

\* C8: a delete of a published assignment by the teacher recorded as its
\* creator is answered Forbidden and changes neither the assignments nor the
\* attachments; a delete of a draft, or of a published assignment by an admin
\* or by a teacher who is not its creator, is not answered Forbidden.
C8_CreatorGate ==
    [][ (DeleteStep /\ resp'.id \in DOMAIN assignments)
          => LET row == assignments[resp'.id]
                 actor == resp'.actor
             IN /\ (row.draft = FALSE /\ is_teacher(actor) /\ row.creator = Some(actor))
                     => /\ resp'.status = "Forbidden"
                        /\ assignments' = assignments
                        /\ attachments' = attachments
                /\ (/\ ~is_student(actor)
                    /\ \/ row.draft
                       \/ is_admin(actor)
                       \/ is_teacher(actor) /\ row.creator # Some(actor))
                     => resp'.status # "Forbidden" ]_vars

\* The creator's delete of their own published assignment was refused; its
\* attachment is still there.
C8_Witness ==
    /\ resp.op = "delete" /\ resp.status = "Forbidden"
    /\ is_teacher(resp.actor)
    /\ resp.id \in DOMAIN assignments
    /\ assignments[resp.id].draft = FALSE
    /\ assignments[resp.id].creator = Some(resp.actor)
    /\ Len(load_by_assignment_id(attachments, resp.id)) >= 1

\* C7, as claimed: the student view answers Forbidden to an actor who is not a
\* student, and NotFound to a student when the assignment does not exist or
\* when the student has no submission for it.
C7_StudentViewErrors ==
    resp.op = "students_assignment"
        => /\ ~is_student(resp.actor) => resp.status = "Forbidden"
           /\ (is_student(resp.actor) /\ resp.id \notin DOMAIN assignments)
                 => resp.status = "NotFound"
           /\ (/\ is_student(resp.actor)
               /\ resp.id \in DOMAIN assignments
               /\ ~HasSubmission(submissions, resp.id, resp.actor))
                 => resp.status = "NotFound"

OwnerCount(row) ==
    Cardinality({o \in {"assignment", "submission", "announcement"} :
        \/ o = "assignment" /\ is_some(row.assignment_id)
        \/ o = "submission" /\ is_some(row.submission_id)
        \/ o = "announcement" /\ is_some(row.announcement_id)})

\* C5, as claimed: every stored attachment has exactly one owner reference set,
\* and Attachment::create given zero or two owner references does not succeed.
C5_OwnerCardinality ==
    /\ \A i \in 1..Len(attachments) : OwnerCount(attachments[i]) = 1
    /\ (resp.op = "attach" /\ OwnerCount(resp.attachment) # 1) => resp.status # "Ok"

----------------------------------------------------------------------------
(* Properties of get_attachments (SpecResolve) *)

\* The resolved views of the last response, if it carries any.
ResolvedViews ==
    IF resp.op \in {"students_assignment", "teachers_assignment"} /\ resp.status = "Ok"
    THEN IF resp.op = "students_assignment"
         THEN unwrap(resp.body).assignment_attachments
                  \o unwrap(resp.body).submission_attachments
         ELSE unwrap(resp.body).assignment_attachments
    ELSE <<>>

\* The attachments the last request passed to get_attachments.
PassedAttachments ==
    IF resp.op \in {"students_assignment", "teachers_assignment"} /\ resp.status = "Ok"
    THEN IF resp.op = "students_assignment"
         THEN load_by_assignment_id(attachments, resp.id)
                  \o load_by_submission_id(attachments,
                         unwrap(SubmissionsGetById(submissions, resp.id, resp.actor)).submission_id)
         ELSE load_by_assignment_id(attachments, resp.id)
    ELSE <<>>

FileLinkIff(v) ==
    /\ is_some(v.file) <=> is_some(v.attachment.file_id)
    /\ is_some(v.link) <=> is_some(v.attachment.link_id)

====
